---- MODULE Spec2Model ----
(***************************************************************************)
(* Validation schemas of autofaq_api.models (pydantic v2 BaseModel          *)
(* classes).  One validation request is taken at a time: a payload is       *)
(* drawn, the schema's validation runs over its fields in declaration       *)
(* order, and the outcome is a record, a validation error listing the       *)
(* violating fields, or an exception that escaped a validator.              *)
(*                                                                          *)
(* Texts are sequences of one-character strings.  A timestamp text is a     *)
(* record [body, wellformed, tail]: body is the wall-clock reading in       *)
(* hours, wellformed says whether the date-time part is well formed, and    *)
(* tail is the sequence of tokens after it ("Z", "+", "-", an offset such   *)
(* as "02:00", or anything else).                                           *)
(***************************************************************************)
EXTENDS Integers, Sequences, FiniteSets, TLC

VARIABLES pc, schema, input, outcome, assignment, defaults, shares, touched

vars == <<pc, schema, input, outcome, assignment, defaults, shares, touched>>

\* ---------------------------------------------------------------- bounds
MaxHour == 3
MaxDocId == 1
MaxDocs == 2
MaxStatusLen == 2
MaxAppends == 1
MaxHistory == 1

\* ------------------------------------------------------- field results
\* What validating one field gives: a value, a field violation (ValueError
\* raised by a validator or a failed declared constraint), or an exception of
\* another type, which pydantic does not catch.
Ok(v) == [st |-> "ok", val |-> v]
Violation(v) == [st |-> "error", val |-> v]
Raise(exc, v) == [st |-> exc, val |-> v]

IsCrash(r) == r.st \notin {"ok", "error"}

\* A payload field is omitted, null, or given with a value.
Omitted(d) == [tag |-> "omitted", v |-> d]
Null(d) == [tag |-> "null", v |-> d]
Given(x) == [tag |-> "val", v |-> x]

\* ------------------------------------------------------------- str
RECURSIVE LStrip(_)
LStrip(s) == IF s # <<>> /\ Head(s) = " " THEN LStrip(Tail(s)) ELSE s

RECURSIVE RStrip(_)
RStrip(s) ==
    IF s # <<>> /\ s[Len(s)] = " " THEN RStrip(SubSeq(s, 1, Len(s) - 1)) ELSE s

\* str.strip()
Strip(s) == RStrip(LStrip(s))

LowerChar(c) == IF c = "A" THEN "a" ELSE IF c = "B" THEN "b" ELSE c

\* str.lower()
Lower(s) == [i \in 1..Len(s) |-> LowerChar(s[i])]

\* ------------------------------------------------------------- datetime
OffsetTokens == {"00:00", "02:00", "05:00"}

OffsetHours(tok) == IF tok = "02:00" THEN 2 ELSE IF tok = "05:00" THEN 5 ELSE 0

OffsetToken(h) == IF h = 2 THEN "02:00" ELSE IF h = 5 THEN "05:00" ELSE "00:00"

Abs(n) == IF n < 0 THEN -n ELSE n

Naive(w) == [kind |-> "datetime", wall |-> w, aware |-> FALSE, off |-> 0]
Aware(w, o) == [kind |-> "datetime", wall |-> w, aware |-> TRUE, off |-> o]
StrValue(t) == [kind |-> "str", text |-> t]

Stamp(b, t) == [body |-> b, wellformed |-> TRUE, tail |-> t]
BadStamp == [body |-> 0, wellformed |-> FALSE, tail |-> <<>>]

\* The instant a datetime denotes, in hours (an aware one: its UTC reading).
Instant(d) == d.wall - d.off

\* str.replace('Z', '+00:00') on a timestamp text: every Z, not only a last one.
RECURSIVE ReplaceZTokens(_)
ReplaceZTokens(t) ==
    IF t = <<>> THEN <<>>
    ELSE IF Head(t) = "Z" THEN <<"+", "00:00">> \o ReplaceZTokens(Tail(t))
    ELSE <<Head(t)>> \o ReplaceZTokens(Tail(t))

ReplaceZ(s) == [s EXCEPT !.tail = ReplaceZTokens(s.tail)]

\* datetime.fromisoformat: whether the text parses, and the datetime it gives.
IsoParses(s) ==
    /\ s.wellformed
    /\ \/ s.tail = <<>>
       \/ /\ Len(s.tail) = 2
          /\ s.tail[1] \in {"+", "-"}
          /\ s.tail[2] \in OffsetTokens

fromisoformat(s) ==
    IF s.tail = <<>> THEN Naive(s.body)
    ELSE Aware(s.body,
               IF s.tail[1] = "-" THEN -OffsetHours(s.tail[2])
               ELSE OffsetHours(s.tail[2]))

\* datetime.isoformat(): the wall-clock reading, then the offset of an aware one.
isoformat(d) ==
    Stamp(d.wall,
          IF d.aware
          THEN <<IF d.off < 0 THEN "-" ELSE "+", OffsetToken(Abs(d.off))>>
          ELSE <<>>)

\* str.split('+')[0]: the text before the first '+'.
RECURSIVE BeforePlus(_)
BeforePlus(t) ==
    IF t = <<>> \/ Head(t) = "+" THEN <<>> ELSE <<Head(t)>> \o BeforePlus(Tail(t))

SplitPlusFirst(s) == [s EXCEPT !.tail = BeforePlus(s.tail)]

AppendZ(s) == [s EXCEPT !.tail = Append(s.tail, "Z")]

\* pydantic's own parsing of a datetime field given as a string: a naive
\* reading, a trailing Z, or a signed offset.
PydanticDatetime(s) ==
    IF ~s.wellformed THEN Violation(s)
    ELSE IF s.tail = <<>> THEN Ok(Naive(s.body))
    ELSE IF s.tail = <<"Z">> THEN Ok(Aware(s.body, 0))
    ELSE IF Len(s.tail) = 2 /\ s.tail[1] \in {"+", "-"} /\ s.tail[2] \in OffsetTokens
    THEN Ok(fromisoformat(s))
    ELSE Violation(s)

\* ------------------------------------------------------------- inputs
Hours == 0..MaxHour

StampTails ==
    {<<>>, <<"Z">>, <<"+", "00:00">>, <<"+", "02:00">>, <<"-", "05:00">>, <<"x">>}

StampTexts == {Stamp(h, t) : h \in Hours, t \in StampTails} \cup {BadStamp}

QuestionTexts ==
    {<<>>, <<" ">>, <<"a">>, <<"A">>, <<" ", "A", " ">>, <<"b">>}

AnswerTexts == {<<>>, <<" ">>, <<" ", "a">>}

\* ------------------------------------------------------- DocumentModel
QuestionMaxLength == 1000

\* question: str, min_length=1, max_length=1000
QuestionField(v) ==
    IF Len(v) < 1 \/ Len(v) > QuestionMaxLength THEN Violation(v) ELSE Ok(v)

\* answer: str, min_length=1
AnswerField(v) == IF Len(v) < 1 THEN Violation(v) ELSE Ok(v)

\* validate_question_length, had it returned v instead of v.strip().
validate_question_length_unstripped(v) ==
    IF Len(Strip(v)) = 0 THEN Violation(v)
    ELSE IF Len(v) > QuestionMaxLength THEN Violation(v)
    ELSE Ok(v)

validate_question_length(v) ==
    IF Len(Strip(v)) = 0 THEN Violation(v)
    ELSE IF Len(v) > QuestionMaxLength THEN Violation(v)
    ELSE Ok(Strip(v))

validate_answer_length(v) ==
    IF Len(Strip(v)) = 0 THEN Violation(v) ELSE Ok(Strip(v))

\* validate_date_format, had it returned the text in the form the datetime
\* validators of the other schemas return instead of the text as supplied.
validate_date_format_normalizing(f) ==
    IF f.tag # "val" THEN Ok(f)
    ELSE IF IsoParses(ReplaceZ(f.v))
    THEN Ok(Given(AppendZ(SplitPlusFirst(isoformat(fromisoformat(ReplaceZ(f.v)))))))
    ELSE Violation(f)

\* validate_date_format, had it replaced a text that does not parse by None
\* instead of raising.
validate_date_format_defaulting(f) ==
    IF f.tag # "val" THEN Ok(f)
    ELSE IF IsoParses(ReplaceZ(f.v)) THEN Ok(f)
    ELSE Ok(Null(f.v))

\* validate_date_format on modified_at / expired_at; f is None (tag "null")
\* or a string.
validate_date_format(f) ==
    IF f.tag # "val" THEN Ok(f)
    ELSE IF IsoParses(ReplaceZ(f.v)) THEN Ok(f)
    ELSE Violation(f)

\* A field validator runs on a supplied value that passed the field's own
\* declaration; an omitted field takes its default without it.
RunsValidator(inner) == inner.st = "ok"

\* expired_at: Optional[str], default None
ExpiredAtField(f) ==
    IF f.tag = "omitted" THEN Ok(Null(f.v)) ELSE validate_date_format(f)

\* _HistoryAction: the values of the enum.
HistoryAction == {"cs_update_document", "cs_create_document", "cs_delete_document"}

\* _HistoryItemModel: name is a _HistoryAction.
HistoryItemModel(item) ==
    IF item.name \in HistoryAction THEN Ok(item) ELSE Violation(item)

\* history: List[_HistoryItemModel], default_factory=list
HistoryField(f) ==
    IF f.tag = "omitted" THEN Ok(<<>>)
    ELSE IF \E i \in 1..Len(f.v) : HistoryItemModel(f.v[i]).st # "ok"
    THEN Violation(f.v)
    ELSE Ok(f.v)

\* Histories whose items name one of the enum's values, "create", or nothing.
HistoryLists ==
    UNION {[1..n -> [name : HistoryAction \cup {"create", ""}]] : n \in 0..MaxHistory}

DocumentFieldNames ==
    <<"document_id", "question", "answer", "modified_at", "expired_at", "history">>

DocumentFieldResult(p, name) ==
    CASE name = "document_id" ->
            IF p.document_id >= 0 THEN Ok(p.document_id) ELSE Violation(p.document_id)
      [] name = "question" ->
            LET inner == QuestionField(p.question)
            IN  IF RunsValidator(inner) THEN validate_question_length(inner.val) ELSE inner
      [] name = "answer" ->
            LET inner == AnswerField(p.answer)
            IN  IF RunsValidator(inner) THEN validate_answer_length(inner.val) ELSE inner
      [] name = "modified_at" -> validate_date_format(Given(p.modified_at))
      [] name = "expired_at" -> ExpiredAtField(p.expired_at)
      [] name = "history" -> HistoryField(p.history)

\* The first field whose validator let an exception escape (0: none).
RECURSIVE FirstCrash(_, _)
FirstCrash(results, i) ==
    IF i > Len(results) THEN 0
    ELSE IF IsCrash(results[i]) THEN i
    ELSE FirstCrash(results, i + 1)

\* The outcome of validating one payload: fields are validated in declaration
\* order, violations accumulate, an escaping exception ends the validation.
Outcome(results, names) ==
    LET c == FirstCrash(results, 1)
        seen == IF c = 0 THEN 1..Len(names) ELSE 1..(c - 1)
        errs == {names[i] : i \in {j \in seen : results[j].st = "error"}}
    IN  IF c # 0
        THEN [kind |-> "Exception", exc |-> results[c].st, errors |-> errs,
              rec |-> <<>>]
        ELSE IF errs # {}
        THEN [kind |-> "ValidationError", exc |-> "", errors |-> errs, rec |-> <<>>]
        ELSE [kind |-> "Accepted", exc |-> "", errors |-> {},
              rec |-> [n \in {names[i] : i \in 1..Len(names)} |->
                         results[CHOOSE i \in 1..Len(names) : names[i] = n].val]]

ValidateDocument(p) ==
    Outcome([i \in 1..Len(DocumentFieldNames) |->
                DocumentFieldResult(p, DocumentFieldNames[i])],
            DocumentFieldNames)

\* Payloads that vary the texts and timestamps, and payloads that vary the
\* history.
DocumentPayloads ==
    [document_id : {0}, question : QuestionTexts, answer : AnswerTexts,
     modified_at : StampTexts,
     expired_at : {Omitted(BadStamp), Null(BadStamp)} \cup {Given(s) : s \in StampTexts},
     history : {Omitted(<<>>)}]
    \cup
    [document_id : {0}, question : {<<>>, <<"a">>}, answer : {<<"a">>},
     modified_at : {Stamp(0, <<"Z">>)},
     expired_at : {Omitted(BadStamp)},
     history : {Given(h) : h \in HistoryLists}]

\* -------------------------------------------------- ServiceCreateModel
\* Scores are counted in thousandths: 400 is 0.4.
ScoreDefault == 950
ScoreUpper == 1000
NameMaxLength == 255

\* round(v, 2): the nearest hundredth; the inputs drawn hold no decimal tie.
Round2(v) ==
    LET r == v % 10
    IN  IF r < 5 THEN v - r
        ELSE IF r > 5 THEN v - r + 10
        ELSE IF ((v - r) \div 10) % 2 = 0 THEN v - r ELSE v - r + 10

\* The second positional parameter of a field validator receives pydantic's
\* ValidationInfo object, which is no mapping: it answers neither `in` nor a
\* subscript, and either one raises TypeError.
ValidationInfoIsMapping == FALSE

\* name: str, min_length=1, max_length=255, under str_strip_whitespace
NameField(v) ==
    IF Len(Strip(v)) < 1 \/ Len(Strip(v)) > NameMaxLength
    THEN Violation(v) ELSE Ok(Strip(v))

validate_name(v) ==
    IF Len(Strip(v)) = 0 THEN Violation(v)
    ELSE IF Len(Strip(v)) > NameMaxLength THEN Violation(v)
    ELSE Ok(Strip(v))

\* max_trainable_score: float, ge=0.0, le=1.0
ScoreField(v) == IF v < 0 \/ v > ScoreUpper THEN Violation(v) ELSE Ok(v)

validate_trainable_score(v, values) ==
    IF ~ValidationInfoIsMapping THEN Raise("TypeError", v)
    ELSE IF "trainable" \in DOMAIN values.data /\ ~values.data.trainable /\ v > 0
    THEN Violation(v)
    ELSE Ok(Round2(v))

\* A field supplied with a value of the wrong type.
Invalid(d) == [tag |-> "bad", v |-> d]

\* trainable: bool, default True
TrainableField(f) ==
    IF f.tag = "omitted" THEN Ok(TRUE)
    ELSE IF f.tag = "bad" THEN Violation(f.v)
    ELSE Ok(f.v)

\* max_trainable_score with its default: the validator does not run on it.
MaxTrainableScoreField(f, data) ==
    IF f.tag = "omitted" THEN Ok(ScoreDefault)
    ELSE LET inner == ScoreField(f.v)
         IN  IF RunsValidator(inner)
             THEN validate_trainable_score(inner.val, [data |-> data])
             ELSE inner

LevensteinDefault == 3
LevensteinUpper == 10

\* min_levenstein_distance: int, default 3, ge=0, le=10
MinLevensteinDistanceField(f) ==
    IF f.tag = "omitted" THEN Ok(LevensteinDefault)
    ELSE IF f.v < 0 \/ f.v > LevensteinUpper THEN Violation(f.v)
    ELSE Ok(f.v)

\* method: Literal["auto", "manual", "hybrid"], default "auto"
MethodField(f) ==
    IF f.tag = "omitted" THEN Ok("auto")
    ELSE IF f.v \notin {"auto", "manual", "hybrid"} THEN Violation(f.v)
    ELSE Ok(f.v)

validate_penalty(v) == Ok(Round2(v))

\* inequal_lang_penalty: float, default 0.0, ge=0.0, le=1.0
InequalLangPenaltyField(f) ==
    IF f.tag = "omitted" THEN Ok(0)
    ELSE LET inner == ScoreField(f.v)
         IN  IF RunsValidator(inner) THEN validate_penalty(inner.val) ELSE inner

SeqToSet(s) == {s[i] : i \in 1..Len(s)}

validate_documents(v) ==
    IF v = <<>> THEN Ok(v)
    ELSE LET document_ids == [i \in 1..Len(v) |-> v[i].document_id]
             questions == [i \in 1..Len(v) |-> Strip(Lower(v[i].question))]
         IN  IF Len(document_ids) # Cardinality(SeqToSet(document_ids))
             THEN Violation(v)
             ELSE IF Len(questions) # Cardinality(SeqToSet(questions))
             THEN Violation(v)
             ELSE Ok(v)

\* documents: List[DocumentModel]: every item is validated as a DocumentModel,
\* then validate_documents runs on the list of records.
DocumentsField(docs) ==
    LET outs == [i \in 1..Len(docs) |-> ValidateDocument(docs[i])]
    IN  IF \E i \in 1..Len(docs) : outs[i].kind # "Accepted"
        THEN Violation(docs)
        ELSE validate_documents([i \in 1..Len(docs) |-> outs[i].rec])

ServiceFieldNames ==
    <<"name", "trainable", "max_trainable_score", "min_levenstein_distance",
      "method", "inequal_lang_penalty", "documents">>

ServiceFieldResult(p, name) ==
    CASE name = "name" ->
            LET inner == NameField(p.name)
            IN  IF RunsValidator(inner) THEN validate_name(inner.val) ELSE inner
      [] name = "trainable" -> TrainableField(p.trainable)
      [] name = "max_trainable_score" ->
            MaxTrainableScoreField(p.max_trainable_score,
                                   IF TrainableField(p.trainable).st = "ok"
                                   THEN [trainable |-> TrainableField(p.trainable).val]
                                   ELSE <<>>)
      [] name = "min_levenstein_distance" ->
            MinLevensteinDistanceField(p.min_levenstein_distance)
      [] name = "method" -> MethodField(p.method)
      [] name = "inequal_lang_penalty" ->
            InequalLangPenaltyField(p.inequal_lang_penalty)
      [] name = "documents" -> DocumentsField(p.documents)

ValidateServiceCreate(p) ==
    Outcome([i \in 1..Len(ServiceFieldNames) |->
                ServiceFieldResult(p, ServiceFieldNames[i])],
            ServiceFieldNames)

ServiceNames == {<<" ">>, <<" ", "a">>}

Scores == {0, 4, 333, 400, 1000, 1500}

Penalties == {333, 1500}

ServiceQuestionTexts == {<<" ">>, <<"a">>, <<" ", "A", " ">>, <<"b">>}

ServiceDocument(i, q) ==
    [document_id |-> i, question |-> q, answer |-> <<" ", "a">>,
     modified_at |-> Stamp(0, <<"Z">>), expired_at |-> Omitted(BadStamp),
     history |-> Omitted(<<>>)]

ServiceDocuments ==
    {ServiceDocument(i, q) : i \in 0..MaxDocId, q \in ServiceQuestionTexts}

\* Payloads that vary the document list, and payloads that vary the scalar
\* fields.
ServiceDocumentPayloads ==
    [name : ServiceNames,
     trainable : {Omitted(TRUE), Given(FALSE)},
     max_trainable_score : {Omitted(0), Given(400)},
     min_levenstein_distance : {Omitted(0)},
     method : {Omitted("")},
     inequal_lang_penalty : {Omitted(0)},
     documents : UNION {[1..n -> ServiceDocuments] : n \in 0..MaxDocs}]

ServiceScalarPayloads ==
    [name : ServiceNames,
     trainable : {Omitted(TRUE), Given(TRUE), Given(FALSE), Invalid(TRUE)},
     max_trainable_score : {Omitted(0)} \cup {Given(v) : v \in Scores},
     min_levenstein_distance : {Omitted(0), Given(3), Given(11)},
     method : {Omitted(""), Given("manual"), Given("x")},
     inequal_lang_penalty : {Omitted(0)} \cup {Given(v) : v \in Penalties},
     documents : {<<>>}]

ServicePayloads == ServiceDocumentPayloads \cup ServiceScalarPayloads

\* ------------------------------------------------------------ _Interval
NoneValue == [kind |-> "None"]
ListValue(s) == [kind |-> "list", items |-> s]

\* validate_end_after_start, had it compared with `<` instead of `<=`.
validate_end_after_start_nonstrict(self) ==
    IF self.end.aware # self.start.aware THEN Raise("TypeError", self)
    ELSE IF Instant(self.end) < Instant(self.start) THEN Violation(self)
    ELSE Ok(self)

\* self.end <= self.start: a naive and an aware datetime do not compare.
validate_end_after_start(self) ==
    IF self.end.aware # self.start.aware THEN Raise("TypeError", self)
    ELSE IF Instant(self.end) <= Instant(self.start) THEN Violation(self)
    ELSE Ok(self)

IntervalFieldNames == <<"start", "end">>

IntervalFieldResult(p, name) ==
    CASE name = "start" -> PydanticDatetime(p.start)
      [] name = "end" -> PydanticDatetime(p.end)

\* The mode='after' model validator runs once every field is valid.
ValidateInterval(p) ==
    LET fields == Outcome([i \in 1..Len(IntervalFieldNames) |->
                               IntervalFieldResult(p, IntervalFieldNames[i])],
                          IntervalFieldNames)
    IN  IF fields.kind # "Accepted" THEN fields
        ELSE LET m == validate_end_after_start(fields.rec)
             IN  IF m.st = "ok" THEN fields
                 ELSE IF m.st = "error"
                 THEN [kind |-> "ValidationError", exc |-> "",
                       errors |-> {"__root__"}, rec |-> <<>>]
                 ELSE [kind |-> "Exception", exc |-> m.st, errors |-> {},
                       rec |-> <<>>]

IntervalPayloads == [start : StampTexts, end : StampTexts]

\* ------------------------------------------------ GetConversationsModel
STATUSES == <<"ClosedByBot", "ClosedByOperator", "ClosedByOperatorWithBot", "ClosedByTimer">>

\* Python truth of a validated Optional[datetime].
Truthy(v) == v.kind # "None"

OptionalDatetime(f) ==
    IF f.tag = "val" THEN PydanticDatetime(f.v) ELSE Ok(NoneValue)

validate_date_range(v, values) ==
    IF ~ValidationInfoIsMapping THEN Raise("TypeError", v)
    ELSE IF "tsFrom" \in DOMAIN values.data /\ Truthy(values.data.tsFrom) /\ Truthy(v)
    THEN IF v.aware # values.data.tsFrom.aware THEN Raise("TypeError", v)
         ELSE IF Instant(v) <= Instant(values.data.tsFrom) THEN Violation(v)
         ELSE Ok(v)
    ELSE Ok(v)

\* tsTo: Optional[datetime], default None; the validator runs when tsTo is
\* supplied (null included) and is itself a valid Optional[datetime].
TsToField(f, data) ==
    IF f.tag = "omitted" THEN Ok(NoneValue)
    ELSE LET inner == OptionalDatetime(f)
         IN  IF RunsValidator(inner)
             THEN validate_date_range(inner.val, [data |-> data])
             ELSE inner

\* for i in v: a None is not iterable.
validate_conversation_status(v) ==
    IF v.kind = "None" THEN Raise("TypeError", v)
    ELSE IF \E k \in 1..Len(v.items) : v.items[k] \notin SeqToSet(STATUSES)
    THEN Violation(v)
    ELSE Ok(v)

\* conversationStatusList: Optional[List[str]], default None
ConversationStatusListField(f) ==
    IF f.tag = "omitted" THEN Ok(NoneValue)
    ELSE IF f.tag = "null" THEN validate_conversation_status(NoneValue)
    ELSE validate_conversation_status(ListValue(f.v))

ConversationsFieldNames == <<"tsFrom", "tsTo", "conversationStatusList">>

ConversationsFieldResult(p, name) ==
    CASE name = "tsFrom" -> OptionalDatetime(p.tsFrom)
      [] name = "tsTo" ->
            TsToField(p.tsTo,
                      IF OptionalDatetime(p.tsFrom).st = "ok"
                      THEN [tsFrom |-> OptionalDatetime(p.tsFrom).val]
                      ELSE <<>>)
      [] name = "conversationStatusList" ->
            ConversationStatusListField(p.conversationStatusList)

ValidateGetConversations(p) ==
    Outcome([i \in 1..Len(ConversationsFieldNames) |->
                ConversationsFieldResult(p, ConversationsFieldNames[i])],
            ConversationsFieldNames)

StatusNames == {"ClosedByBot", "ClosedByTimer", "Reopened"}

StatusLists == UNION {[1..n -> StatusNames] : n \in 0..MaxStatusLen}

OptionalStamps ==
    {Omitted(BadStamp), Null(BadStamp)} \cup {Given(s) : s \in StampTexts}

ConversationsPayloads ==
    [tsFrom : OptionalStamps, tsTo : OptionalStamps,
     conversationStatusList :
        {Omitted(<<>>), Null(<<>>)} \cup {Given(l) : l \in StatusLists}]

\* ------------------------------------------- QuestionModel, _DateRange
\* The value a mode-'after' validator of a datetime field receives is the
\* parsed datetime; the string branch is the code's, and is not taken.
validate_dt_format(v) ==
    IF v.kind = "str"
    THEN IF IsoParses(ReplaceZ(v.text))
         THEN Ok(StrValue(AppendZ(SplitPlusFirst(
                     isoformat(fromisoformat(ReplaceZ(v.text)))))))
         ELSE Violation(v)
    ELSE IF v.kind = "datetime"
    THEN Ok(StrValue(AppendZ(SplitPlusFirst(isoformat(v)))))
    ELSE Ok(v)

validate_to_date(v) ==
    IF v.kind = "str"
    THEN IF IsoParses(ReplaceZ(v.text))
         THEN Ok(StrValue(AppendZ(SplitPlusFirst(
                     isoformat(fromisoformat(ReplaceZ(v.text)))))))
         ELSE Violation(v)
    ELSE IF v.kind = "datetime"
    THEN Ok(StrValue(AppendZ(SplitPlusFirst(isoformat(v)))))
    ELSE Ok(v)

\* Field(default=[]) / Field(default={}): the one list or dict object the class
\* holds as the default of the field.
DeclaredDefaults == [fileIds |-> <<>>, intents |-> <<>>, payload |-> {}]

\* The default of a field, had the record been given the class's own default
\* object instead of a copy of it.
get_default_uncopied(name) == [value |-> defaults[name], shared |-> TRUE]

\* The default an omitted field takes: pydantic copies a default that is not
\* hashable (a list, a dict) for every record.
get_default(name) == [value |-> defaults[name], shared |-> FALSE]

\* The defaulted fields of a record that are the class's default object itself.
Shares(name, f) ==
    IF f.tag = "omitted" /\ get_default(name).shared THEN {name} ELSE {}

UuidTexts == {"0f8fad5b-d9cb-469f-a165-70867728950e", "not-a-uuid"}

\* uuid.UUID(hex): hex.replace(...) needs a string; a malformed string is a
\* ValueError.
uuid_UUID(x) ==
    IF x.kind # "str" THEN Raise("AttributeError", x)
    ELSE IF x.text = "not-a-uuid" THEN Violation(x)
    ELSE Ok(x)

\* The validator is handed the whole list.
validate_file_ids(v) ==
    LET u == uuid_UUID(v)
    IN  IF u.st = "ok" THEN Ok(v) ELSE IF u.st = "error" THEN Violation(v) ELSE u

\* fileIds: List[str], default []
FileIdsField(f) ==
    IF f.tag = "omitted" THEN Ok(ListValue(get_default("fileIds").value))
    ELSE validate_file_ids(ListValue(f.v))

QuestionFieldNames == <<"dt", "fileIds">>

QuestionFieldResult(p, name) ==
    CASE name = "dt" ->
            LET inner == PydanticDatetime(p.dt)
            IN  IF RunsValidator(inner) THEN validate_dt_format(inner.val) ELSE inner
      [] name = "fileIds" -> FileIdsField(p.fileIds)

ValidateQuestion(p) ==
    Outcome([i \in 1..Len(QuestionFieldNames) |->
                QuestionFieldResult(p, QuestionFieldNames[i])],
            QuestionFieldNames)

QuestionPayloads ==
    [dt : StampTexts,
     fileIds : {Omitted(<<>>), Given(<<>>)}
               \cup {Given(<<u>>) : u \in UuidTexts}]

DateRangeFieldNames == <<"from_", "to">>

DateRangeFieldResult(p, name) ==
    CASE name = "from_" ->
            LET inner == PydanticDatetime(p.from_)
            IN  IF RunsValidator(inner) THEN validate_dt_format(inner.val) ELSE inner
      [] name = "to" ->
            LET inner == PydanticDatetime(p.to)
            IN  IF RunsValidator(inner) THEN validate_to_date(inner.val) ELSE inner

ValidateDateRange(p) ==
    Outcome([i \in 1..Len(DateRangeFieldNames) |->
                DateRangeFieldResult(p, DateRangeFieldNames[i])],
            DateRangeFieldNames)

DateRangePayloads == [from_ : StampTexts, to : StampTexts]

\* ------------------------------------------- plain required text fields
DocumentNameMaxLength == 500
RequestQuestionMaxLength == 5000
RequestAnswerMaxLength == 10000
ParaphraseMaxLength == 5000
AuthorMaxLength == 255
AttachmentNameMaxLength == 255
DescriptionMaxLength == 1000

\* str with min_length / max_length, had the schema also set
\* str_strip_whitespace.
BoundedStr_stripping(v, lo, hi) ==
    IF Len(Strip(v)) < lo \/ Len(Strip(v)) > hi THEN Violation(v) ELSE Ok(Strip(v))

\* str with min_length / max_length in a schema without str_strip_whitespace:
\* the length of the value as supplied is checked, and the value is kept.
BoundedStr(v, lo, hi) ==
    IF Len(v) < lo \/ Len(v) > hi THEN Violation(v) ELSE Ok(v)

\* int with gt=0
PositiveInt(v) == IF v > 0 THEN Ok(v) ELSE Violation(v)

FreeTexts == {<<>>, <<" ">>, <<" ", "a">>, <<"a">>}

CreateDocumentFieldNames == <<"service_id", "name", "question", "answer">>

CreateDocumentFieldResult(p, name) ==
    CASE name = "service_id" -> PositiveInt(p.service_id)
      [] name = "name" -> BoundedStr(p.name, 1, DocumentNameMaxLength)
      [] name = "question" -> BoundedStr(p.question, 1, RequestQuestionMaxLength)
      [] name = "answer" -> BoundedStr(p.answer, 1, RequestAnswerMaxLength)

ValidateCreateDocumentRequest(p) ==
    Outcome([i \in 1..Len(CreateDocumentFieldNames) |->
                CreateDocumentFieldResult(p, CreateDocumentFieldNames[i])],
            CreateDocumentFieldNames)

CreateDocumentPayloads ==
    [service_id : {0, 1}, name : FreeTexts, question : FreeTexts, answer : FreeTexts]

CreateParaphraseFieldNames == <<"service_id", "document_id", "paraphrase", "author">>

CreateParaphraseFieldResult(p, name) ==
    CASE name = "service_id" -> PositiveInt(p.service_id)
      [] name = "document_id" -> PositiveInt(p.document_id)
      [] name = "paraphrase" -> BoundedStr(p.paraphrase, 1, ParaphraseMaxLength)
      [] name = "author" -> BoundedStr(p.author, 1, AuthorMaxLength)

ValidateCreateParaphrase(p) ==
    Outcome([i \in 1..Len(CreateParaphraseFieldNames) |->
                CreateParaphraseFieldResult(p, CreateParaphraseFieldNames[i])],
            CreateParaphraseFieldNames)

CreateParaphrasePayloads ==
    [service_id : {1}, document_id : {0, 1}, paraphrase : FreeTexts, author : FreeTexts]

\* description: Optional[str], default None, max_length=1000
DescriptionField(f) ==
    IF f.tag # "val" THEN Ok(Null(f.v))
    ELSE LET inner == BoundedStr(f.v, 0, DescriptionMaxLength)
         IN  IF inner.st = "ok" THEN Ok(f) ELSE Violation(f)

UpdateAttachmentFieldNames == <<"name", "description">>

UpdateAttachmentFieldResult(p, name) ==
    CASE name = "name" -> BoundedStr(p.name, 1, AttachmentNameMaxLength)
      [] name = "description" -> DescriptionField(p.description)

ValidateUpdateServiceAttachment(p) ==
    Outcome([i \in 1..Len(UpdateAttachmentFieldNames) |->
                UpdateAttachmentFieldResult(p, UpdateAttachmentFieldNames[i])],
            UpdateAttachmentFieldNames)

UpdateAttachmentPayloads ==
    [name : FreeTexts,
     description : {Omitted(<<>>), Null(<<>>)} \cup {Given(t) : t \in FreeTexts}]

QueryFieldNames ==
    <<"service_id", "service_token", "query", "top_k", "session_id", "intents",
      "context_document_id", "lower_bound">>

\* int with a default and ge=lo
IntWithDefault(f, default, lo) ==
    IF f.tag = "omitted" THEN Ok(default)
    ELSE IF f.v >= lo THEN Ok(f.v)
    ELSE Violation(f.v)

\* intents: List[str], default []
IntentsField(f) ==
    IF f.tag = "omitted" THEN Ok(ListValue(get_default("intents").value))
    ELSE Ok(ListValue(f.v))

\* service_id, service_token, query: str, min_length=1, no upper bound
QueryFieldResult(p, name) ==
    CASE name = "service_id" -> BoundedStr(p.service_id, 1, Len(p.service_id))
      [] name = "service_token" -> BoundedStr(p.service_token, 1, Len(p.service_token))
      [] name = "query" -> BoundedStr(p.query, 1, Len(p.query))
      [] name = "top_k" -> IntWithDefault(p.top_k, 3, 1)
      [] name = "session_id" ->
            IF p.session_id.tag = "omitted" THEN Ok(<<>>) ELSE Ok(p.session_id.v)
      [] name = "intents" -> IntentsField(p.intents)
      [] name = "context_document_id" -> IntWithDefault(p.context_document_id, 0, 0)
      [] name = "lower_bound" -> IntWithDefault(p.lower_bound, 0, 0)

ValidateQuery(p) ==
    Outcome([i \in 1..Len(QueryFieldNames) |-> QueryFieldResult(p, QueryFieldNames[i])],
            QueryFieldNames)

QueryPayloads ==
    [service_id : {<<>>, <<"a">>}, service_token : {<<>>, <<"a">>}, query : FreeTexts,
     top_k : {Omitted(0), Given(0)},
     session_id : {Omitted(<<>>)},
     intents : {Omitted(<<>>), Given(<<>>), Given(<<"greet">>)},
     context_document_id : {Omitted(0)},
     lower_bound : {Omitted(0)}]

\* ------------------------------------------------------------ _Operator
DictValue(keys) == [kind |-> "dict", keys |-> keys]

\* email, login, phone, fullName: str = Field(None): the default None is not
\* validated, a supplied None is not a str.
OperatorText(f) ==
    IF f.tag = "omitted" THEN Ok(Null(<<>>))
    ELSE IF f.tag = "null" THEN Violation(f)
    ELSE Ok(f)

\* payload: dict, default {}
PayloadField(f) ==
    IF f.tag = "omitted" THEN Ok(DictValue(get_default("payload").value))
    ELSE Ok(DictValue(f.v))

OperatorFieldNames == <<"email", "login", "phone", "fullName", "payload">>

OperatorFieldResult(p, name) ==
    IF name = "payload" THEN PayloadField(p.payload) ELSE OperatorText(p[name])

ValidateOperator(p) ==
    Outcome([i \in 1..Len(OperatorFieldNames) |->
                OperatorFieldResult(p, OperatorFieldNames[i])],
            OperatorFieldNames)

OperatorPayloads ==
    [email : {Omitted(<<>>), Null(<<>>), Given(<<"a">>)},
     login : {Omitted(<<>>), Given(<<"a">>)},
     phone : {Omitted(<<>>)},
     fullName : {Omitted(<<>>)},
     payload : {Omitted({}), Given({}), Given({"k"})}]

\* ------------------------------------------------- DocumentContextModel
\* _HistoryItem: name is a str with min_length=1.
HistoryItem(item) ==
    IF item.name = "" THEN Violation(item) ELSE Ok(item)

\* history: List[_HistoryItem], required
ContextHistoryField(v) ==
    IF \E i \in 1..Len(v) : HistoryItem(v[i]).st # "ok" THEN Violation(v) ELSE Ok(v)

DocumentContextFieldNames == <<"name", "question", "answer", "history">>

\* name, question, answer: str, min_length=1, no upper bound
DocumentContextFieldResult(p, name) ==
    IF name = "history" THEN ContextHistoryField(p.history)
    ELSE BoundedStr(p[name], 1, Len(p[name]))

ValidateDocumentContext(p) ==
    Outcome([i \in 1..Len(DocumentContextFieldNames) |->
                DocumentContextFieldResult(p, DocumentContextFieldNames[i])],
            DocumentContextFieldNames)

DocumentContextPayloads ==
    [name : {<<>>, <<"a">>}, question : {<<"a">>}, answer : {<<"a">>},
     history : HistoryLists]

\* ------------------------------------------------- pagination parameters
\* Optional[int] with a default and ge=lo; None is stored as Null(0).
OptionalInt(f, default, lo) ==
    IF f.tag = "omitted" THEN Ok(default)
    ELSE IF f.tag = "null" THEN Ok(Null(0))
    ELSE IF f.v >= lo THEN Ok(f)
    ELSE Violation(f)

\* count: Optional[int], default None, ge=1
CountField(f) == OptionalInt(f, Null(0), 1)

\* limit / limit_paraphrases: Optional[int], default None, ge=1
LimitField(f) == OptionalInt(f, Null(0), 1)

\* offset: Optional[int], default 0, ge=0
OffsetField(f) == OptionalInt(f, Given(0), 0)

\* offset_paraphrases: Optional[int], default None, ge=0
OffsetParaphrasesField(f) == OptionalInt(f, Null(0), 0)

\* sort_by, from, to: Optional[str] with a default, no constraint
OptionalStr(f, default) == IF f.tag = "omitted" THEN Ok(default) ELSE Ok(f)

\* sort_order: Literal["asc", "desc"], default "asc"
SortOrderField(f) ==
    IF f.tag = "omitted" THEN Ok("asc")
    ELSE IF f.v \notin {"asc", "desc"} THEN Violation(f.v)
    ELSE Ok(f.v)

SuggestedFieldNames ==
    <<"from_time", "to", "limit", "offset", "count", "sort_by", "sort_order">>

\* from_time is read from the key "from" (its alias).
SuggestedFieldResult(p, name) ==
    CASE name = "from_time" -> OptionalStr(p.from, Null(""))
      [] name = "to" -> OptionalStr(p.to, Null(""))
      [] name = "limit" -> LimitField(p.limit)
      [] name = "offset" -> OffsetField(p.offset)
      [] name = "count" -> CountField(p.count)
      [] name = "sort_by" -> OptionalStr(p.sort_by, Given("id"))
      [] name = "sort_order" -> SortOrderField(p.sort_order)

ValidateSuggestedParams(p) ==
    Outcome([i \in 1..Len(SuggestedFieldNames) |->
                SuggestedFieldResult(p, SuggestedFieldNames[i])],
            SuggestedFieldNames)

SuggestedPayloads ==
    [from : {Omitted(""), Given("t")},
     to : {Omitted(""), Given("t")},
     limit : {Omitted(0), Given(0), Given(1)},
     offset : {Omitted(0), Given(-1), Given(2)},
     count : {Omitted(0), Given(0), Given(5)},
     sort_by : {Omitted(""), Given("modified_at")},
     sort_order : {Omitted(""), Given("desc"), Given("x")}]

\* The keyword arguments built from a list of query parameters: the value of
\* a key is the one supplied last, a key not supplied is omitted.
Lookup(params, key) ==
    LET at == {i \in 1..Len(params) : params[i][1] = key}
    IN  IF at = {} THEN Omitted(0)
        ELSE Given(params[CHOOSE i \in at : \A j \in at : j <= i][2])

ParaphrasesFieldNames ==
    <<"document_id", "limit_paraphrases", "offset_paraphrases", "offset", "count",
      "sort_by", "sort_order">>

ParaphrasesFieldResult(params, name) ==
    CASE name = "document_id" -> PositiveInt(Lookup(params, name).v)
      [] name = "limit_paraphrases" -> LimitField(Lookup(params, name))
      [] name = "offset_paraphrases" ->
            OffsetParaphrasesField(Lookup(params, name))
      [] name = "offset" -> OffsetField(Lookup(params, name))
      [] name = "count" -> CountField(Lookup(params, name))
      [] name = "sort_by" -> OptionalStr(Omitted(""), Given("id"))
      [] name = "sort_order" -> SortOrderField(Omitted(""))

ValidateParaphrasesParams(params) ==
    Outcome([i \in 1..Len(ParaphrasesFieldNames) |->
                ParaphrasesFieldResult(params, ParaphrasesFieldNames[i])],
            ParaphrasesFieldNames)

PaginationParams ==
    {<<"limit_paraphrases", 0>>, <<"limit_paraphrases", 2>>,
     <<"offset_paraphrases", 0>>, <<"offset_paraphrases", 1>>,
     <<"offset", -1>>, <<"offset", 1>>,
     <<"count", 1>>, <<"count", 2>>}

\* document_id followed by any of the pagination parameters, each at most
\* once, in any order.
ParaphrasesPayloads ==
    {<<<<"document_id", d>>>> \o s :
        d \in {0, 1},
        s \in {t \in UNION {[1..k -> PaginationParams] : k \in 0..4} :
                 \A i, j \in 1..Len(t) : t[i][1] = t[j][1] => i = j}}

\* ------------------------------------------------- attribute assignment
\* __setattr__, had the schemas been declared frozen: the record is left as it
\* was.
setattr_frozen(rec, name, value) == rec

\* BaseModel.__setattr__ under the declared model_config (no frozen, no
\* validate_assignment): the field takes the value, unvalidated.
setattr(rec, name, value) == [rec EXCEPT ![name] = value]

\* ------------------------------------------------------------- machine
Init ==
    /\ pc = "idle"
    /\ schema = "none"
    /\ input = <<>>
    /\ outcome = <<>>
    /\ assignment = <<>>
    /\ defaults = DeclaredDefaults
    /\ shares = {}
    /\ touched = FALSE

Validate_DocumentModel ==
    /\ pc = "idle"
    /\ \E p \in DocumentPayloads :
          /\ input' = p
          /\ outcome' = ValidateDocument(p)
    /\ schema' = "DocumentModel"
    /\ pc' = "done"
    /\ assignment' = <<>>
    /\ shares' = {}
    /\ UNCHANGED <<defaults, touched>>

Validate_ServiceCreateModel ==
    /\ pc = "idle"
    /\ \E p \in ServicePayloads :
          /\ input' = p
          /\ outcome' = ValidateServiceCreate(p)
    /\ schema' = "ServiceCreateModel"
    /\ pc' = "done"
    /\ assignment' = <<>>
    /\ shares' = {}
    /\ UNCHANGED <<defaults, touched>>

Validate_Interval ==
    /\ pc = "idle"
    /\ \E p \in IntervalPayloads :
          /\ input' = p
          /\ outcome' = ValidateInterval(p)
    /\ schema' = "_Interval"
    /\ pc' = "done"
    /\ assignment' = <<>>
    /\ shares' = {}
    /\ UNCHANGED <<defaults, touched>>

Validate_GetConversationsModel ==
    /\ pc = "idle"
    /\ \E p \in ConversationsPayloads :
          /\ input' = p
          /\ outcome' = ValidateGetConversations(p)
    /\ schema' = "GetConversationsModel"
    /\ pc' = "done"
    /\ assignment' = <<>>
    /\ shares' = {}
    /\ UNCHANGED <<defaults, touched>>

Validate_QuestionModel ==
    /\ pc = "idle"
    /\ \E p \in QuestionPayloads :
          /\ input' = p
          /\ outcome' = ValidateQuestion(p)
          /\ shares' = Shares("fileIds", p.fileIds)
    /\ schema' = "QuestionModel"
    /\ pc' = "done"
    /\ assignment' = <<>>
    /\ UNCHANGED <<defaults, touched>>

Validate_DateRange ==
    /\ pc = "idle"
    /\ \E p \in DateRangePayloads :
          /\ input' = p
          /\ outcome' = ValidateDateRange(p)
    /\ schema' = "_DateRange"
    /\ pc' = "done"
    /\ assignment' = <<>>
    /\ shares' = {}
    /\ UNCHANGED <<defaults, touched>>

Validate_CreateDocumentRequest ==
    /\ pc = "idle"
    /\ \E p \in CreateDocumentPayloads :
          /\ input' = p
          /\ outcome' = ValidateCreateDocumentRequest(p)
    /\ schema' = "CreateDocumentRequest"
    /\ pc' = "done"
    /\ assignment' = <<>>
    /\ shares' = {}
    /\ UNCHANGED <<defaults, touched>>

Validate_CreateParaphraseModel ==
    /\ pc = "idle"
    /\ \E p \in CreateParaphrasePayloads :
          /\ input' = p
          /\ outcome' = ValidateCreateParaphrase(p)
    /\ schema' = "CreateParaphraseModel"
    /\ pc' = "done"
    /\ assignment' = <<>>
    /\ shares' = {}
    /\ UNCHANGED <<defaults, touched>>

Validate_UpdateServiceAttachmentModel ==
    /\ pc = "idle"
    /\ \E p \in UpdateAttachmentPayloads :
          /\ input' = p
          /\ outcome' = ValidateUpdateServiceAttachment(p)
    /\ schema' = "UpdateServiceAttachmentModel"
    /\ pc' = "done"
    /\ assignment' = <<>>
    /\ shares' = {}
    /\ UNCHANGED <<defaults, touched>>

Validate_QueryModel ==
    /\ pc = "idle"
    /\ \E p \in QueryPayloads :
          /\ input' = p
          /\ outcome' = ValidateQuery(p)
          /\ shares' = Shares("intents", p.intents)
    /\ schema' = "QueryModel"
    /\ pc' = "done"
    /\ assignment' = <<>>
    /\ UNCHANGED <<defaults, touched>>

Validate_SuggestedDocumentsParamsModel ==
    /\ pc = "idle"
    /\ \E p \in SuggestedPayloads :
          /\ input' = p
          /\ outcome' = ValidateSuggestedParams(p)
    /\ schema' = "SuggestedDocumentsParamsModel"
    /\ pc' = "done"
    /\ assignment' = <<>>
    /\ shares' = {}
    /\ UNCHANGED <<defaults, touched>>

Validate_SuggestedParaphrasesParamsModel ==
    /\ pc = "idle"
    /\ \E p \in SuggestedPayloads :
          /\ input' = p
          /\ outcome' = ValidateSuggestedParams(p)
    /\ schema' = "SuggestedParaphrasesParamsModel"
    /\ pc' = "done"
    /\ assignment' = <<>>
    /\ shares' = {}
    /\ UNCHANGED <<defaults, touched>>

Validate_GetParaphrasesyParamsModel ==
    /\ pc = "idle"
    /\ \E p \in ParaphrasesPayloads :
          /\ input' = p
          /\ outcome' = ValidateParaphrasesParams(p)
    /\ schema' = "GetParaphrasesyParamsModel"
    /\ pc' = "done"
    /\ assignment' = <<>>
    /\ shares' = {}
    /\ UNCHANGED <<defaults, touched>>

\* The field values of an accepted record, as a payload of its schema.
DumpDocument(rec) ==
    [document_id |-> rec.document_id, question |-> rec.question,
     answer |-> rec.answer, modified_at |-> rec.modified_at.v,
     expired_at |-> rec.expired_at, history |-> Given(rec.history)]

DumpService(rec) ==
    [name |-> rec.name,
     trainable |-> Given(rec.trainable),
     max_trainable_score |-> Given(rec.max_trainable_score),
     min_levenstein_distance |-> Given(rec.min_levenstein_distance),
     method |-> Given(rec.method),
     inequal_lang_penalty |-> Given(rec.inequal_lang_penalty),
     documents |-> [i \in 1..Len(rec.documents) |-> DumpDocument(rec.documents[i])]]

DumpQuestion(rec) == [dt |-> rec.dt.text, fileIds |-> Given(rec.fileIds.items)]

DumpDateRange(rec) == [from_ |-> rec.from_.text, to |-> rec.to.text]

\* Schema(**record.model_dump()): the field values of an accepted record are
\* validated again.
Revalidate_DocumentModel ==
    /\ pc \in {"done", "redone"}
    /\ schema = "DocumentModel"
    /\ outcome.kind = "Accepted"
    /\ input' = DumpDocument(outcome.rec)
    /\ outcome' = ValidateDocument(input')
    /\ pc' = "redone"
    /\ shares' = {}
    /\ UNCHANGED <<schema, assignment, defaults, touched>>

Revalidate_ServiceCreateModel ==
    /\ pc \in {"done", "redone"}
    /\ schema = "ServiceCreateModel"
    /\ outcome.kind = "Accepted"
    /\ input' = DumpService(outcome.rec)
    /\ outcome' = ValidateServiceCreate(input')
    /\ pc' = "redone"
    /\ shares' = {}
    /\ UNCHANGED <<schema, assignment, defaults, touched>>

Revalidate_QuestionModel ==
    /\ pc \in {"done", "redone"}
    /\ schema = "QuestionModel"
    /\ outcome.kind = "Accepted"
    /\ input' = DumpQuestion(outcome.rec)
    /\ outcome' = ValidateQuestion(input')
    /\ pc' = "redone"
    /\ shares' = {}
    /\ UNCHANGED <<schema, assignment, defaults, touched>>

Revalidate_DateRange ==
    /\ pc \in {"done", "redone"}
    /\ schema = "_DateRange"
    /\ outcome.kind = "Accepted"
    /\ input' = DumpDateRange(outcome.rec)
    /\ outcome' = ValidateDateRange(input')
    /\ pc' = "redone"
    /\ shares' = {}
    /\ UNCHANGED <<schema, assignment, defaults, touched>>

Validate_DocumentContextModel ==
    /\ pc = "idle"
    /\ \E p \in DocumentContextPayloads :
          /\ input' = p
          /\ outcome' = ValidateDocumentContext(p)
    /\ schema' = "DocumentContextModel"
    /\ pc' = "done"
    /\ assignment' = <<>>
    /\ shares' = {}
    /\ UNCHANGED <<defaults, touched>>

Validate_Operator ==
    /\ pc = "idle"
    /\ \E p \in OperatorPayloads :
          /\ input' = p
          /\ outcome' = ValidateOperator(p)
          /\ shares' = Shares("payload", p.payload)
    /\ schema' = "_Operator"
    /\ pc' = "done"
    /\ assignment' = <<>>
    /\ UNCHANGED <<defaults, touched>>

\* The field of each schema that defaults to a list or a dict.
DefaultedField ==
    [QuestionModel |-> "fileIds", QueryModel |-> "intents", _Operator |-> "payload"]

\* record.fileIds.append(x) / record.intents.append(x) on an accepted record
\* whose list was defaulted: the list object grows in place, and with it the
\* class's default if the record holds that very object.
Append_DefaultedList ==
    /\ pc \in {"done", "mutated"}
    /\ schema \in {"QuestionModel", "QueryModel"}
    /\ outcome.kind = "Accepted"
    /\ input[DefaultedField[schema]].tag = "omitted"
    /\ Len(outcome.rec[DefaultedField[schema]].items) < MaxAppends
    /\ LET f == DefaultedField[schema]
           grown == Append(outcome.rec[f].items, "x")
       IN  /\ outcome' = [outcome EXCEPT !.rec[f] = ListValue(grown)]
           /\ defaults' = IF f \in shares THEN [defaults EXCEPT ![f] = grown]
                          ELSE defaults
    /\ touched' = TRUE
    /\ pc' = "mutated"
    /\ UNCHANGED <<schema, input, assignment, shares>>

\* record.payload[key] = ... on an accepted _Operator whose dict was defaulted.
SetKey_DefaultedDict ==
    /\ pc \in {"done", "mutated"}
    /\ schema = "_Operator"
    /\ outcome.kind = "Accepted"
    /\ input.payload.tag = "omitted"
    /\ Cardinality(outcome.rec.payload.keys) < MaxAppends
    /\ LET grown == outcome.rec.payload.keys
                        \cup {<<"k1", "k2", "k3">>[Cardinality(outcome.rec.payload.keys) + 1]}
       IN  /\ outcome' = [outcome EXCEPT !.rec.payload = DictValue(grown)]
           /\ defaults' = IF "payload" \in shares
                          THEN [defaults EXCEPT !.payload = grown]
                          ELSE defaults
    /\ touched' = TRUE
    /\ pc' = "mutated"
    /\ UNCHANGED <<schema, input, assignment, shares>>

\* The attribute assignments tried on an accepted record.
Assignments(name, rec) ==
    CASE name = "ServiceCreateModel" ->
            {[name |-> "max_trainable_score", value |-> 900],
             [name |-> "trainable", value |-> FALSE],
             [name |-> "name", value |-> <<>>]}
      [] name = "_Interval" ->
            {[name |-> n, value |-> v] :
                n \in {"start", "end"}, v \in {rec.start, rec.end}}
      [] OTHER -> {}

\* record.name = value: the schemas are neither frozen nor validate on
\* assignment, so the value is stored as it is.
SetAttr ==
    /\ pc \in {"done", "assigned"}
    /\ outcome.kind = "Accepted"
    /\ \E a \in Assignments(schema, outcome.rec) :
          /\ assignment' = a
          /\ outcome' = [outcome EXCEPT !.rec = setattr(outcome.rec, a.name, a.value)]
    /\ pc' = "assigned"
    /\ UNCHANGED <<schema, input, defaults, shares, touched>>

\* The outcome is handed back and the next request is awaited.
Respond ==
    /\ pc \in {"done", "assigned", "redone", "mutated"}
    /\ pc' = "idle"
    /\ schema' = "none"
    /\ input' = <<>>
    /\ outcome' = <<>>
    /\ assignment' = <<>>
    /\ shares' = {}
    /\ UNCHANGED <<defaults, touched>>

Next ==
    \/ Validate_DocumentModel
    \/ Validate_ServiceCreateModel
    \/ Validate_Interval
    \/ Validate_GetConversationsModel
    \/ Validate_QuestionModel
    \/ Validate_DateRange
    \/ Validate_CreateDocumentRequest
    \/ Validate_CreateParaphraseModel
    \/ Validate_UpdateServiceAttachmentModel
    \/ Validate_QueryModel
    \/ Validate_SuggestedDocumentsParamsModel
    \/ Validate_SuggestedParaphrasesParamsModel
    \/ Validate_GetParaphrasesyParamsModel
    \/ Revalidate_DocumentModel
    \/ Revalidate_ServiceCreateModel
    \/ Revalidate_QuestionModel
    \/ Revalidate_DateRange
    \/ Validate_DocumentContextModel
    \/ Validate_Operator
    \/ Append_DefaultedList
    \/ SetKey_DefaultedDict
    \/ SetAttr
    \/ Respond

Spec == Init /\ [][Next]_vars

Done(name) == pc = "done" /\ schema = name

\* ------------------------------------------------------------- claims
HasDuplicateIds(docs) ==
    \E i, j \in 1..Len(docs) : i # j /\ docs[i].document_id = docs[j].document_id

\* Two questions equal once trimmed and lower-cased.
HasDuplicateQuestions(docs) ==
    \E i, j \in 1..Len(docs) :
        i # j /\ Lower(Strip(docs[i].question)) = Lower(Strip(docs[j].question))

\* C1: a ServiceCreateModel payload holding two documents with the same
\* document_id ends in a validation error, and an accepted record's documents
\* have pairwise distinct document_id values.
C1_DuplicateDocumentIdRejected ==
    Done("ServiceCreateModel") =>
        /\ HasDuplicateIds(input.documents) => outcome.kind = "ValidationError"
        /\ outcome.kind = "Accepted" => ~HasDuplicateIds(outcome.rec.documents)

\* C2: a ServiceCreateModel payload holding two documents whose questions are
\* equal after trimming and lower-casing ends in a validation error, and an
\* accepted record's documents have pairwise distinct trimmed, lower-cased
\* questions.
C2_DuplicateQuestionRejected ==
    Done("ServiceCreateModel") =>
        /\ HasDuplicateQuestions(input.documents) => outcome.kind = "ValidationError"
        /\ outcome.kind = "Accepted" => ~HasDuplicateQuestions(outcome.rec.documents)

\* C3: every accepted ServiceCreateModel record with trainable false has
\* max_trainable_score 0, the payloads that omit max_trainable_score included.
C3_UntrainableScoreIsZero ==
    (Done("ServiceCreateModel") /\ outcome.kind = "Accepted") =>
        (~outcome.rec.trainable => outcome.rec.max_trainable_score = 0)

\* The rest of a service payload is valid.
InUnitRange(f) == f.tag = "omitted" \/ (f.v >= 0 /\ f.v <= 1000)

ServiceRestValid(p) ==
    /\ Len(Strip(p.name)) > 0
    /\ p.documents = <<>>
    /\ p.min_levenstein_distance.tag = "omitted" \/ p.min_levenstein_distance.v \in 0..10
    /\ p.method.tag = "omitted" \/ p.method.v \in {"auto", "manual", "hybrid"}
    /\ InUnitRange(p.inequal_lang_penalty)

\* C4: max_trainable_score 0.4 with trainable false ends in a validation error
\* on max_trainable_score, with trainable true in a record holding 0.40, and in
\* neither case in an exception.
C4_ScoreAgainstTrainable ==
    (/\ Done("ServiceCreateModel")
     /\ ServiceRestValid(input)
     /\ input.max_trainable_score = Given(400)
     /\ input.trainable.tag = "val") =>
        /\ outcome.kind # "Exception"
        /\ ~input.trainable.v =>
              /\ outcome.kind = "ValidationError"
              /\ "max_trainable_score" \in outcome.errors
        /\ input.trainable.v =>
              /\ outcome.kind = "Accepted"
              /\ outcome.rec.max_trainable_score = 400

\* A timestamp text pydantic reads as a datetime.
Reads(s) == PydanticDatetime(s).st = "ok"
Read(s) == PydanticDatetime(s).val

\* Python orders two datetimes only when both are naive or both are aware.
Comparable(a, b) == Reads(a) /\ Reads(b) /\ Read(a).aware = Read(b).aware

\* C5: an _Interval is accepted exactly when end is strictly later than start;
\* equal bounds end in a validation error, and an end one unit after start is
\* accepted.
C5_IntervalEndAfterStart ==
    Done("_Interval") =>
        /\ outcome.kind = "Accepted" <=>
              /\ Comparable(input.start, input.end)
              /\ Instant(Read(input.end)) > Instant(Read(input.start))
        /\ (/\ Comparable(input.start, input.end)
            /\ Instant(Read(input.end)) = Instant(Read(input.start))) =>
              outcome.kind = "ValidationError"
        /\ (/\ Comparable(input.start, input.end)
            /\ Instant(Read(input.end)) = Instant(Read(input.start)) + 1) =>
              outcome.kind = "Accepted"

C5_Witness ==
    /\ Done("_Interval")
    /\ outcome.kind = "Accepted"
    /\ Instant(outcome.rec.end) = Instant(outcome.rec.start) + 1
    /\ outcome.rec.end.off # outcome.rec.start.off

BothBounds(p) ==
    /\ p.tsFrom.tag = "val" /\ p.tsTo.tag = "val"
    /\ Comparable(p.tsFrom.v, p.tsTo.v)

StatusListValid(f) ==
    \/ f.tag = "omitted"
    \/ f.tag = "val" /\ \A k \in 1..Len(f.v) : f.v[k] \in SeqToSet(STATUSES)

\* C6: with tsFrom and tsTo both supplied and valid, GetConversationsModel
\* ends in a validation error when tsTo <= tsFrom and accepts when
\* tsTo > tsFrom; an accepted record holding both has tsTo > tsFrom.
C6_TsToAfterTsFrom ==
    (/\ Done("GetConversationsModel")
     /\ BothBounds(input)
     /\ StatusListValid(input.conversationStatusList)) =>
        /\ Instant(Read(input.tsTo.v)) <= Instant(Read(input.tsFrom.v)) =>
              outcome.kind = "ValidationError"
        /\ Instant(Read(input.tsTo.v)) > Instant(Read(input.tsFrom.v)) =>
              outcome.kind = "Accepted"
        /\ outcome.kind = "Accepted" =>
              Instant(outcome.rec.tsTo) > Instant(outcome.rec.tsFrom)

\* C7: a supplied conversationStatusList with an entry outside the four
\* closing reasons ends in a validation error on it; a supplied list of
\* allowed entries only, the empty one included, raises no violation and is
\* stored unchanged.
C7_StatusListMembers ==
    (Done("GetConversationsModel") /\ input.conversationStatusList.tag = "val") =>
        LET l == input.conversationStatusList.v
            allowed == \A k \in 1..Len(l) : l[k] \in SeqToSet(STATUSES)
        IN  /\ ~allowed =>
                  /\ outcome.kind = "ValidationError"
                  /\ "conversationStatusList" \in outcome.errors
            /\ allowed =>
                  /\ outcome.kind # "Exception"
                  /\ "conversationStatusList" \notin outcome.errors
                  /\ outcome.kind = "Accepted" =>
                        outcome.rec.conversationStatusList = ListValue(l)

\* The same instant read in UTC, written with a Z and no offset.
UtcText(d) == StrValue(Stamp(Instant(d), <<"Z">>))

NonZeroOffset(s) == Reads(s) /\ Read(s).aware /\ Read(s).off # 0

\* C8: QuestionModel.dt and _DateRange.from/to store a timestamp given with a
\* non-zero UTC offset as the same instant in UTC with a Z suffix and no
\* offset, for positive and for negative offsets.
C8_OffsetConvertedToUtc ==
    /\ (Done("QuestionModel") /\ outcome.kind = "Accepted"
            /\ NonZeroOffset(input.dt)) =>
          outcome.rec.dt = UtcText(Read(input.dt))
    /\ (Done("_DateRange") /\ outcome.kind = "Accepted") =>
          /\ NonZeroOffset(input.from_) =>
                outcome.rec.from_ = UtcText(Read(input.from_))
          /\ NonZeroOffset(input.to) => outcome.rec.to = UtcText(Read(input.to))

\* A timestamp text in the normalized form: a Z and nothing else after the
\* date and time.
Normalized(s) == s.wellformed /\ s.tail = <<"Z">>

C10_MalformedTimestampRejected ==
    Done("DocumentModel") =>
        /\ outcome.kind # "Exception"
        /\ ~Reads(input.modified_at) =>
              outcome.kind = "ValidationError" /\ "modified_at" \in outcome.errors
        /\ (input.expired_at.tag = "val" /\ ~Reads(input.expired_at.v)) =>
              outcome.kind = "ValidationError" /\ "expired_at" \in outcome.errors
        /\ input.expired_at.tag # "val" =>
              /\ "expired_at" \notin outcome.errors
              /\ outcome.kind = "Accepted" => outcome.rec.expired_at.tag = "null"

C10_Witness ==
    /\ Done("DocumentModel")
    /\ ~Reads(input.modified_at)
    /\ input.expired_at.tag = "null"
    /\ outcome.kind = "ValidationError"
    /\ outcome.errors = {"modified_at"}

\* C11: a supplied QuestionModel.fileIds list of well-formed UUID strings is
\* accepted and stored unchanged; a list holding an entry that is no UUID ends
\* in a validation error on fileIds, not in an exception.
C11_FileIdsUuidChecked ==
    (Done("QuestionModel") /\ Reads(input.dt) /\ input.fileIds.tag = "val") =>
        LET l == input.fileIds.v
            wellformed == \A k \in 1..Len(l) : l[k] # "not-a-uuid"
        IN  /\ outcome.kind # "Exception"
            /\ wellformed =>
                  /\ outcome.kind = "Accepted"
                  /\ outcome.rec.fileIds = ListValue(l)
            /\ ~wellformed =>
                  /\ outcome.kind = "ValidationError"
                  /\ "fileIds" \in outcome.errors

\* The hundredth nearest to a score counted in thousandths.
NearestHundredth(v) ==
    CHOOSE m \in {10 * k : k \in 0..100} : m - v < 5 /\ v - m < 5

IsHundredth(v) == v \in {10 * k : k \in 0..100}

\* C12: a ServiceCreateModel inequal_lang_penalty or max_trainable_score
\* within [0,1] is accepted and stored rounded to two decimal places (0.333 as
\* 0.33), and every accepted record holds multiples of 0.01 within [0,1].
C12_ScoresStoredRounded ==
    Done("ServiceCreateModel") =>
        /\ (/\ ServiceRestValid(input)
            /\ input.trainable \in {Omitted(TRUE), Given(TRUE)}
            /\ InUnitRange(input.max_trainable_score)) =>
              /\ outcome.kind = "Accepted"
              /\ input.max_trainable_score.tag = "val" =>
                    outcome.rec.max_trainable_score =
                        NearestHundredth(input.max_trainable_score.v)
              /\ input.inequal_lang_penalty.tag = "val" =>
                    outcome.rec.inequal_lang_penalty =
                        NearestHundredth(input.inequal_lang_penalty.v)
        /\ outcome.kind = "Accepted" =>
              /\ IsHundredth(outcome.rec.max_trainable_score)
              /\ IsHundredth(outcome.rec.inequal_lang_penalty)

\* A text of blanks only, the empty text included.
IsBlank(s) == \A i \in 1..Len(s) : s[i] = " "

\* A non-empty text that neither starts nor ends with a blank.
NoOuterBlank(s) == s # <<>> /\ s[1] # " " /\ s[Len(s)] # " "

\* s is core with blanks before and after it.
PaddingOf(s, core) ==
    \E i \in 0..Len(s) :
        /\ i + Len(core) <= Len(s)
        /\ \A k \in 1..Len(s) :
              IF k > i /\ k <= i + Len(core) THEN s[k] = core[k - i] ELSE s[k] = " "

\* C13: a DocumentModel question or answer that is empty or blank ends in a
\* validation error on it, and an accepted record stores question and answer
\* non-empty, without the blanks around what was supplied.
C13_BlankQuestionAnswerRejected ==
    Done("DocumentModel") =>
        /\ IsBlank(input.question) =>
              outcome.kind = "ValidationError" /\ "question" \in outcome.errors
        /\ IsBlank(input.answer) =>
              outcome.kind = "ValidationError" /\ "answer" \in outcome.errors
        /\ outcome.kind = "Accepted" =>
              /\ NoOuterBlank(outcome.rec.question)
              /\ PaddingOf(input.question, outcome.rec.question)
              /\ NoOuterBlank(outcome.rec.answer)
              /\ PaddingOf(input.answer, outcome.rec.answer)

C13_Witness ==
    /\ Done("DocumentModel")
    /\ outcome.kind = "Accepted"
    /\ input.question = <<" ", "A", " ">>
    /\ input.answer = <<" ", "a">>
    /\ outcome.rec.question = <<"A">>
    /\ outcome.rec.answer = <<"a">>

C13_WitnessBlank ==
    /\ Done("DocumentModel")
    /\ input.question = <<" ">>
    /\ input.answer = <<>>
    /\ {"question", "answer"} \subseteq outcome.errors

\* The required free-text fields of the schemas that declare only a length.
RequiredTexts ==
    [CreateDocumentRequest |-> {"name", "question", "answer"},
     CreateParaphraseModel |-> {"paraphrase", "author"},
     UpdateServiceAttachmentModel |-> {"name"},
     QueryModel |-> {"query"}]

RECURSIVE Reverse(_)
Reverse(s) == IF s = <<>> THEN <<>> ELSE Append(Reverse(Tail(s)), Head(s))

Supplied(key) == Lookup(input, key).tag = "val"

BothDiffer(a, b) ==
    /\ Supplied(a)
    /\ Supplied(b)
    /\ Lookup(input, a).v # Lookup(input, b).v

\* C15: when count and limit_paraphrases (or offset and offset_paraphrases)
\* are both supplied with different values, the accepted record holds one
\* value for the pair, and the outcome is the same for the parameters supplied
\* in the opposite order.
C15_AliasPairResolved ==
    Done("GetParaphrasesyParamsModel") =>
        /\ outcome = ValidateParaphrasesParams(<<Head(input)>> \o Reverse(Tail(input)))
        /\ (outcome.kind = "Accepted" /\ BothDiffer("count", "limit_paraphrases")) =>
              outcome.rec.count = outcome.rec.limit_paraphrases
        /\ (outcome.kind = "Accepted" /\ BothDiffer("offset", "offset_paraphrases")) =>
              outcome.rec.offset = outcome.rec.offset_paraphrases

PaginationSchemas ==
    {"SuggestedDocumentsParamsModel", "SuggestedParaphrasesParamsModel",
     "GetParaphrasesyParamsModel"}

\* Whether the request left the parameter out.
Left(key) ==
    IF schema = "GetParaphrasesyParamsModel" THEN ~Supplied(key)
    ELSE input[key].tag = "omitted"

\* C16: a pagination request accepted without count has count = 9999 in the
\* record, and one accepted without offset has offset = 0.
C16_PaginationDefaults ==
    (pc = "done" /\ schema \in PaginationSchemas /\ outcome.kind = "Accepted") =>
        /\ Left("count") => outcome.rec.count = Given(9999)
        /\ Left("offset") => outcome.rec.offset = Given(0)

\* The offset half of C16 on its own.
C16_OffsetDefault ==
    (pc = "done" /\ schema \in PaginationSchemas /\ outcome.kind = "Accepted") =>
        (Left("offset") => outcome.rec.offset = Given(0))

\* The fields of a ServiceCreateModel payload that violate their own declared
\* constraint, whatever the other fields hold.
OwnViolations(p) ==
    {n \in {"name", "trainable", "min_levenstein_distance", "method",
            "inequal_lang_penalty", "documents"} :
        ServiceFieldResult(p, n).st = "error"}
    \cup (IF p.max_trainable_score.tag = "val"
             /\ ScoreField(p.max_trainable_score.v).st = "error"
          THEN {"max_trainable_score"} ELSE {})

\* C17: a payload with two or more fields that each violate their own
\* constraint gets one outcome that lists a violation for each of them.
C17_ViolationsAccumulate ==
    (Done("ServiceCreateModel") /\ Cardinality(OwnViolations(input)) >= 2) =>
        /\ outcome.kind = "ValidationError"
        /\ OwnViolations(input) \subseteq outcome.errors

\* C17 for the payloads that leave max_trainable_score out or out of range,
\* where validate_trainable_score does not run.
C17_AccumulateWithoutScoreValidator ==
    (/\ Done("ServiceCreateModel")
     /\ Cardinality(OwnViolations(input)) >= 2
     /\ (input.max_trainable_score.tag = "omitted"
         \/ "max_trainable_score" \in OwnViolations(input))) =>
        /\ outcome.kind = "ValidationError"
        /\ OwnViolations(input) \subseteq outcome.errors

\* A field read by a cross-field rule is itself invalid.
ReadFieldInvalid ==
    \/ Done("ServiceCreateModel") /\ TrainableField(input.trainable).st = "error"
    \/ Done("GetConversationsModel") /\ OptionalDatetime(input.tsFrom).st = "error"
    \/ /\ Done("_Interval")
       /\ \/ PydanticDatetime(input.start).st = "error"
          \/ PydanticDatetime(input.end).st = "error"

\* The errors a cross-field rule would add: the field carrying the rule
\* reported although its own value is valid, or the record-level error.
CrossFieldErrors ==
    CASE schema = "ServiceCreateModel" ->
            {"max_trainable_score"} \ OwnViolations(input)
      [] schema = "GetConversationsModel" ->
            IF OptionalDatetime(input.tsTo).st = "error" THEN {} ELSE {"tsTo"}
      [] schema = "_Interval" -> {"__root__"}

\* C18: when a field read by a cross-field rule is invalid, the rule is not
\* evaluated: the outcome is a validation error that reports individual field
\* errors only.
C18_CrossFieldNeedsValidFields ==
    ReadFieldInvalid =>
        /\ outcome.kind = "ValidationError"
        /\ outcome.errors \cap CrossFieldErrors = {}

\* The _Interval part of C18 on its own.
C18_IntervalRuleNeedsValidFields ==
    (ReadFieldInvalid /\ schema = "_Interval") =>
        /\ outcome.kind = "ValidationError"
        /\ outcome.errors \cap CrossFieldErrors = {}

\* C19 as stated: an attribute assignment on an accepted record leaves the
\* record's field values unchanged, and an _Interval still has end after
\* start.
C19_RecordImmutable ==
    [][pc' = "assigned" =>
          /\ outcome'.rec = outcome.rec
          /\ schema = "_Interval" =>
                Instant(outcome'.rec.end) > Instant(outcome'.rec.start)]_vars

\* C19 as amended: an attribute assignment on an accepted record stores the
\* assigned value in the named field without validating it and leaves every
\* other field unchanged.
C19_AssignmentStored ==
    [][pc' = "assigned" =>
          /\ outcome'.kind = "Accepted"
          /\ outcome'.rec[assignment'.name] = assignment'.value
          /\ \A f \in DOMAIN outcome.rec \ {assignment'.name} :
                outcome'.rec[f] = outcome.rec[f]]_vars

\* An accepted _Interval whose end was then set to its start.
C19_Witness ==
    /\ pc = "assigned"
    /\ schema = "_Interval"
    /\ assignment.name = "end"
    /\ outcome.rec.end = outcome.rec.start
    /\ Instant(Read(input.end)) > Instant(Read(input.start))

\* An accepted untrainable ServiceCreateModel whose score was then set to 0.9.
C19_WitnessScore ==
    /\ pc = "assigned"
    /\ schema = "ServiceCreateModel"
    /\ outcome.rec.trainable = FALSE
    /\ outcome.rec.max_trainable_score = 900

\* C20: the field values of an accepted record, validated again by the same
\* schema, are accepted and give an identical record.
C20_RevalidationIdempotent ==
    [][pc' = "redone" =>
          /\ outcome'.kind = "Accepted"
          /\ outcome'.rec = outcome.rec]_vars

\* The DocumentModel part of C20 on its own (the trimmed text fields).
C20_DocumentIdempotent ==
    [][(pc' = "redone" /\ schema = "DocumentModel") =>
          /\ outcome'.kind = "Accepted"
          /\ outcome'.rec = outcome.rec]_vars

\* The _DateRange part of C20 for timestamps without a negative offset.
C20_DateRangeIdempotentEastOfUtc ==
    [][(/\ pc' = "redone"
        /\ schema = "_DateRange"
        /\ "-" \notin SeqToSet(outcome.rec.from_.text.tail)
        /\ "-" \notin SeqToSet(outcome.rec.to.text.tail)) =>
          /\ outcome'.kind = "Accepted"
          /\ outcome'.rec = outcome.rec]_vars

\* The items of a defaulted list, or the keys of a defaulted dict.
Contents(v) == IF v.kind = "dict" THEN v.keys ELSE v.items

\* C21: the default of a list or dict field is never changed by what is done
\* to a record, so a record validated with the field omitted gets the
\* declared default, whatever was validated and mutated before it.
C21_ValidationsIndependent ==
    /\ defaults = DeclaredDefaults
    /\ (/\ pc = "done"
        /\ schema \in DOMAIN DefaultedField
        /\ outcome.kind = "Accepted"
        /\ input[DefaultedField[schema]].tag = "omitted") =>
          Contents(outcome.rec[DefaultedField[schema]])
              = DeclaredDefaults[DefaultedField[schema]]

\* A QueryModel validated with intents omitted after the defaulted collection
\* of an earlier record was mutated.
C21_Witness ==
    /\ touched
    /\ Done("QueryModel")
    /\ outcome.kind = "Accepted"
    /\ input.intents.tag = "omitted"
    /\ outcome.rec.intents.items = <<>>

\* An accepted _Operator whose defaulted payload has been given a key.
C21_WitnessDict ==
    /\ pc = "mutated"
    /\ schema = "_Operator"
    /\ outcome.rec.payload.keys = {"k1"}
    /\ defaults.payload = {}

\* The history list a document payload supplies.
SuppliedHistory ==
    IF schema = "DocumentModel"
    THEN (IF input.history.tag = "val" THEN input.history.v ELSE <<>>)
    ELSE input.history

\* Some history item names an action kind outside the three of _HistoryAction.
HasForeignAction(h) == \E i \in 1..Len(h) : h[i].name \notin HistoryAction

\* C22: in DocumentModel and DocumentContextModel a history item whose action
\* kind is not one of the three kinds (create, update, delete of a document)
\* makes the payload a validation error, and an accepted record holds only
\* those kinds.
C22_HistoryActionClosed ==
    (pc = "done" /\ schema \in {"DocumentModel", "DocumentContextModel"}) =>
        /\ HasForeignAction(SuppliedHistory) =>
              outcome.kind = "ValidationError" /\ "history" \in outcome.errors
        /\ outcome.kind = "Accepted" =>
              \A i \in 1..Len(outcome.rec.history) :
                  outcome.rec.history[i].name \in HistoryAction

\* The DocumentModel part of C22 on its own.
C22_DocumentModelHistoryClosed ==
    Done("DocumentModel") =>
        /\ HasForeignAction(SuppliedHistory) =>
              outcome.kind = "ValidationError" /\ "history" \in outcome.errors
        /\ outcome.kind = "Accepted" =>
              \A i \in 1..Len(outcome.rec.history) :
                  outcome.rec.history[i].name \in HistoryAction

\* C23: with trainable false, a supplied max_trainable_score above 0 is a
\* validation error of that field even when it would round to 0.00 (0.004),
\* and a supplied 0 is accepted and stored as 0: the check sees the value
\* before it is rounded.
C23_CheckedBeforeRounding ==
    (/\ Done("ServiceCreateModel")
     /\ ServiceRestValid(input)
     /\ input.trainable = Given(FALSE)
     /\ input.max_trainable_score.tag = "val"
     /\ ScoreField(input.max_trainable_score.v).st = "ok") =>
        /\ input.max_trainable_score.v > 0 =>
              /\ outcome.kind = "ValidationError"
              /\ outcome.errors = {"max_trainable_score"}
        /\ input.max_trainable_score.v = 0 =>
              /\ outcome.kind = "Accepted"
              /\ outcome.rec.max_trainable_score = 0

\* tsFrom is left out, null, or a text that reads as a datetime.
TsFromValid == input.tsFrom.tag # "val" \/ Reads(input.tsFrom.v)

\* C24: a GetConversationsModel payload with conversationStatusList omitted or
\* null is accepted with conversationStatusList None, and one that supplies
\* tsTo without tsFrom is accepted with tsTo as read.
C24_AbsentListAndLoneTsTo ==
    Done("GetConversationsModel") =>
        /\ (/\ input.conversationStatusList.tag \in {"omitted", "null"}
            /\ input.tsTo.tag = "omitted"
            /\ TsFromValid) =>
              /\ outcome.kind = "Accepted"
              /\ outcome.rec.conversationStatusList = NoneValue
        /\ (/\ input.conversationStatusList.tag = "omitted"
            /\ input.tsTo.tag = "val"
            /\ Reads(input.tsTo.v)
            /\ input.tsFrom.tag # "val") =>
              /\ outcome.kind = "Accepted"
              /\ outcome.rec.tsTo = Read(input.tsTo.v)

\* The part of C24 about a conversationStatusList that is left out.
C24_OmittedListIsNone ==
    (/\ Done("GetConversationsModel")
     /\ input.conversationStatusList.tag = "omitted"
     /\ input.tsTo.tag = "omitted"
     /\ TsFromValid) =>
        /\ outcome.kind = "Accepted"
        /\ outcome.rec.conversationStatusList = NoneValue

\* What a conversationStatusList supplied as null ends in: the TypeError of
\* iterating None.
C24_NullListRaises ==
    (/\ Done("GetConversationsModel")
     /\ input.conversationStatusList.tag = "null"
     /\ input.tsTo.tag = "omitted"
     /\ TsFromValid) =>
        /\ outcome.kind = "Exception"
        /\ outcome.exc = "TypeError"
====
